---- MODULE Spec2Model ----
(***************************************************************************)
(* Model of the @Component decorator-to-static transform                   *)
(* (src/compiler/transformers/decorators-to-static/component-decorator.ts).*)
(*                                                                         *)
(* JavaScript strings are sequences of one-character strings, so that      *)
(* trim(), the tag rules and the extension rewrite are computed and not    *)
(* assumed.  JavaScript values of varying type are tagged records.         *)
(***************************************************************************)
EXTENDS Naturals, Sequences, FiniteSets

(***************************************************************************)
(* Bounds of the model.                                                    *)
(***************************************************************************)
\* longest list of exported symbols of the component's module
MaxExports == 2
\* number of classes handed to the transform over one diagnostics list
MaxCalls == 2
\* longest flat styleUrls list
MaxUrls == 2

(***************************************************************************)
(* JavaScript values.                                                      *)
(***************************************************************************)
Undefined == [kind |-> "undefined"]
Str(s) == [kind |-> "string", str |-> s]
Arr(l) == [kind |-> "array", items |-> l]
Obj(m) == [kind |-> "object", map |-> m]

\* JavaScript truthiness: undefined and "" are falsy, arrays and objects truthy
Truthy(v) == CASE v.kind = "undefined" -> FALSE
               [] v.kind = "string" -> Len(v.str) > 0
               [] OTHER -> TRUE

IsArray(v) == v.kind = "array"

IsWhiteSpace(c) == c \in {" ", "\t", "\n"}

RECURSIVE trimStart(_)
trimStart(s) == IF s # <<>> /\ IsWhiteSpace(Head(s)) THEN trimStart(Tail(s)) ELSE s

RECURSIVE trimEnd(_)
trimEnd(s) ==
  IF s # <<>> /\ IsWhiteSpace(s[Len(s)]) THEN trimEnd(SubSeq(s, 1, Len(s) - 1)) ELSE s

\* String.prototype.trim
trim(s) == trimEnd(trimStart(s))

\* all sequences over S of length at most n
RECURSIVE SeqsUpTo(_, _)
SeqsUpTo(S, n) ==
  IF n = 0 THEN {<<>>}
  ELSE LET shorter == SeqsUpTo(S, n - 1)
       IN  shorter \cup {Append(q, x) : q \in shorter, x \in S}

Range(q) == {q[i] : i \in DOMAIN q}

IsPrefix(p, q) == Len(p) <= Len(q) /\ SubSeq(q, 1, Len(p)) = p

\* the part of q after its first n elements
Drop(q, n) == SubSeq(q, n + 1, Len(q))

(***************************************************************************)
(* The reserved default-mode key (DEFAULT_STYLE_MODE of @utils).           *)
(***************************************************************************)
DEFAULT_STYLE_MODE == "$"

(***************************************************************************)
(* Path capability of the host (config.sys.path), POSIX behaviour on       *)
(* relative paths without trailing separators.                             *)
(***************************************************************************)
LastIndexOf(s, c) ==
  LET hits == {i \in DOMAIN s : s[i] = c}
  IN  IF hits = {} THEN 0 ELSE CHOOSE i \in hits : \A j \in hits : j <= i

dirname(p) ==
  LET i == LastIndexOf(p, "/")
  IN  IF i = 0 THEN <<".">> ELSE IF i = 1 THEN <<"/">> ELSE SubSeq(p, 1, i - 1)

lastSegment(p) == SubSeq(p, LastIndexOf(p, "/") + 1, Len(p))

extname(p) ==
  LET b == lastSegment(p)
      i == LastIndexOf(b, ".")
  IN  IF i <= 1 THEN <<>> ELSE SubSeq(b, i, Len(b))

basename(p, ext) ==
  LET b == lastSegment(p)
  IN  IF /\ ext # <<>>
         /\ Len(b) > Len(ext)
         /\ SubSeq(b, Len(b) - Len(ext) + 1, Len(b)) = ext
      THEN SubSeq(b, 1, Len(b) - Len(ext))
      ELSE b

join(dir, file) ==
  IF dir = <<".">> THEN file
  ELSE IF dir = <<"/">> THEN <<"/">> \o file
  ELSE dir \o <<"/">> \o file

(***************************************************************************)
(* Style path normalizer.                                                  *)
(***************************************************************************)
\* mutant: a single string is not wrapped
normalizeStyle_ArraysOnly(style) ==
  IF IsArray(style) THEN style.items ELSE <<>>

\* normalizeStyle(style: string | string[] | undefined): string[]
normalizeStyle(style) ==
  IF IsArray(style) THEN style.items
  ELSE IF Truthy(style) THEN <<style.str>>
  ELSE <<>>

\* normalizeStyleUrls(styleUrls: ModeStyles): CompilerModeStyles
normalizeStyleUrls(styleUrls) ==
  [key \in DOMAIN styleUrls.map |-> normalizeStyle(styleUrls.map[key])]

\* useCss(config, stylePath)
useCss(stylePath) ==
  LET sourceFileDir == dirname(stylePath)
      sourceFileExt == extname(stylePath)
      sourceFileName == basename(stylePath, sourceFileExt)
  IN  join(sourceFileDir, sourceFileName \o <<".", "c", "s", "s">>)

\* normalizeExtension(config, styleUrls)
normalizeExtension(styleUrls) ==
  [key \in DOMAIN styleUrls |->
     [i \in DOMAIN styleUrls[key] |-> useCss(styleUrls[key][i])]]

\* componentOptions.styleUrls[DEFAULT_STYLE_MODE] on a per-mode map
PropertyOf(obj, key) ==
  IF key \in DOMAIN obj.map THEN obj.map[key] ELSE Undefined

\* mutant: styleUrl is pushed before the styleUrls entries
DefaultModeStyles_StyleUrlFirst(componentOptions) ==
  (IF Truthy(componentOptions.styleUrl)
   THEN normalizeStyle(componentOptions.styleUrl)
   ELSE <<>>)
  \o (IF Truthy(componentOptions.styleUrls)
      THEN IF IsArray(componentOptions.styleUrls)
           THEN normalizeStyle(componentOptions.styleUrls)
           ELSE normalizeStyle(PropertyOf(componentOptions.styleUrls, DEFAULT_STYLE_MODE))
      ELSE <<>>)

\* lines 29-39: the default-mode bucket
DefaultModeStyles(componentOptions) ==
  LET fromStyleUrls ==
        IF Truthy(componentOptions.styleUrls)
        THEN IF IsArray(componentOptions.styleUrls)
             THEN normalizeStyle(componentOptions.styleUrls)
             ELSE normalizeStyle(PropertyOf(componentOptions.styleUrls, DEFAULT_STYLE_MODE))
        ELSE <<>>
      fromStyleUrl ==
        IF Truthy(componentOptions.styleUrl)
        THEN normalizeStyle(componentOptions.styleUrl)
        ELSE <<>>
  IN  fromStyleUrls \o fromStyleUrl

\* m with m[key] set to value, the key added when it is new
SetKey(m, key, value) ==
  [k \in DOMAIN m \cup {key} |-> IF k = key THEN value ELSE m[k]]

EmptyMap == [k \in {} |-> <<>>]

\* lines 41-47: the normalized per-mode map
StyleUrlsMap(componentOptions) ==
  LET defaultModeStyles == DefaultModeStyles(componentOptions)
      styleUrls ==
        IF Truthy(componentOptions.styleUrls) /\ ~IsArray(componentOptions.styleUrls)
        THEN normalizeStyleUrls(componentOptions.styleUrls)
        ELSE EmptyMap
  IN  IF Len(defaultModeStyles) > 0
      THEN SetKey(styleUrls, DEFAULT_STYLE_MODE, defaultModeStyles)
      ELSE styleUrls

(***************************************************************************)
(* Host collaborators: diagnostics, literals, decorator stripping, the     *)
(* custom-element naming rules.                                            *)
(***************************************************************************)
\* an AST node, named by what it is and what it belongs to
Node(kind, of) == [kind |-> kind, of |-> of]

\* buildError(diagnostics) pushes a new error diagnostic; the caller then sets
\* its message and augmentDiagnosticWithNode binds it to a node
buildError(diagnostics, messageText, node) ==
  Append(diagnostics, [level |-> "error", messageText |-> messageText, node |-> node])

\* createStaticGetter(name, convertValueToLiteral(value))
createStaticGetter(name, value) == [name |-> name, value |-> value]

\* convertValueToLiteral of a CompilerModeStyles map
LiteralOfModes(m) == Obj([key \in DOMAIN m |-> Arr(m[key])])

CLASS_DECORATORS_TO_REMOVE == {"Component"}

\* removeDecorators(cmpNode, CLASS_DECORATORS_TO_REMOVE)
removeDecorators(cmpNode, names) ==
  [cmpNode EXCEPT !.decorators = SelectSeq(@, LAMBDA dec : dec.name \notin names)]

\* getDeclarationParameters(componentDecorator)[0]
getDeclarationParameters(componentDecorator) ==
  IF componentDecorator.arguments = <<>> THEN Undefined
  ELSE componentDecorator.arguments[1]

LowerCaseLetters ==
  {"a", "b", "c", "d", "e", "f", "g", "h", "i", "j", "k", "l", "m",
   "n", "o", "p", "q", "r", "s", "t", "u", "v", "w", "x", "y", "z"}

Digits == {"0", "1", "2", "3", "4", "5", "6", "7", "8", "9"}

ValidTagChars == LowerCaseLetters \cup Digits \cup {"-", ".", "_"}

ReservedTags ==
  { <<"f", "o", "n", "t", "-", "f", "a", "c", "e">>,
    <<"m", "i", "s", "s", "i", "n", "g", "-", "g", "l", "y", "p", "h">> }

\* validateComponentTag(tag): the rule violated, or undefined
validateComponentTag(tag) ==
  IF \E i \in DOMAIN tag : tag[i] \notin ValidTagChars THEN "invalid characters"
  ELSE IF "-" \notin Range(tag) THEN "must contain a dash"
  ELSE IF tag \in ReservedTags THEN "reserved name"
  ELSE "undefined"

(***************************************************************************)
(* Annotation validator.                                                   *)
(***************************************************************************)
\* findTagNode(propName, node): the initializer of the property assignment
\* named propName in the decorator's object literal, else the decorator
findTagNode(propName, node) ==
  IF propName \in node.propertyAssignments
  THEN Node("initializer", propName)
  ELSE Node("decorator", node.name)

TypeOnlyFlags == {"Interface", "TypeAlias"}

\* line 118: symbols that are neither interfaces nor type aliases
IsNonTypeSymbol(symbol) == symbol.flags \cap TypeOnlyFlags = {}

\* lines 126-128: the node an export diagnostic is bound to; evaluating
\* valueDeclaration.modifiers[0] throws when modifiers is undefined
ErrorNodeThrows(symbol) ==
  symbol.valueDeclaration # Undefined /\ symbol.valueDeclaration.modifiers = Undefined

errorNode(symbol) ==
  IF symbol.valueDeclaration # Undefined
  THEN Node("modifier", symbol.name)
  ELSE Node("declaration", symbol.name)

\* lines 121-131: nonTypeExports.forEach; a record of the diagnostics list and
\* whether the loop threw
RECURSIVE ReportExports(_, _)
ReportExports(diagnostics, symbols) ==
  IF symbols = <<>> THEN [diagnostics |-> diagnostics, threw |-> FALSE]
  ELSE LET symbol == Head(symbols)
       IN  IF ErrorNodeThrows(symbol)
           THEN [diagnostics |-> buildError(diagnostics, "single export", Undefined),
                 threw |-> TRUE]
           ELSE ReportExports(buildError(diagnostics, "single export", errorNode(symbol)),
                              Tail(symbols))

\* mutant: the diagnostics are reported but validation is not failed
CheckExports_NoReject(diagnostics, typeChecker, cmpNode) ==
  LET nonTypes == SelectSeq(typeChecker.exports, IsNonTypeSymbol)
  IN  IF nonTypes # <<>> /\ cmpNode.name = Undefined
      THEN [result |-> "threw", diagnostics |-> diagnostics]
      ELSE LET nonTypeExports ==
                 SelectSeq(nonTypes, LAMBDA symbol : symbol.name # cmpNode.name.text)
               reported == ReportExports(diagnostics, nonTypeExports)
           IN  IF reported.threw
               THEN [result |-> "threw", diagnostics |-> reported.diagnostics]
               ELSE [result |-> "true", diagnostics |-> reported.diagnostics]

\* lines 116-135: the single-export check
CheckExports(diagnostics, typeChecker, cmpNode) ==
  LET nonTypes == SelectSeq(typeChecker.exports, IsNonTypeSymbol)
  IN  IF nonTypes # <<>> /\ cmpNode.name = Undefined
      THEN \* cmpNode.name.text on a class without a name
           [result |-> "threw", diagnostics |-> diagnostics]
      ELSE LET nonTypeExports ==
                 SelectSeq(nonTypes, LAMBDA symbol : symbol.name # cmpNode.name.text)
               reported == ReportExports(diagnostics, nonTypeExports)
           IN  IF reported.threw
               THEN [result |-> "threw", diagnostics |-> reported.diagnostics]
               ELSE IF Len(nonTypeExports) > 0
               THEN [result |-> "false", diagnostics |-> reported.diagnostics]
               ELSE [result |-> "true", diagnostics |-> diagnostics]

HasStringTag(componentOptions) ==
  componentOptions.tag.kind = "string" /\ Len(trim(componentOptions.tag.str)) # 0

\* mutant: the heritage clause is matched on the implements keyword
ExtendNode_Implements(cmpNode) == "implements" \in Range(cmpNode.heritageClauses)

\* line 74: whether the class has an extends clause
ExtendNode(cmpNode) == "extends" \in Range(cmpNode.heritageClauses)

\* mutant: scoped is negated
ShadowAndScoped_Negated(componentOptions) ==
  componentOptions.shadow /\ ~componentOptions.scoped

\* line 83
ShadowAndScoped(componentOptions) == componentOptions.shadow /\ componentOptions.scoped

\* line 91: a decorator left on the class other than the component decorator
OtherDecorators(cmpNode, componentDecorator) ==
  SelectSeq(cmpNode.decorators, LAMBDA dec : dec.id # componentDecorator.id)

\* validateComponent(config, diagnostics, typeChecker, componentOptions, cmpNode,
\* componentDecorator): result is "true", "false" or "threw"
validateComponent(config, diagnostics, typeChecker, componentOptions, cmpNode, componentDecorator) ==
  IF ExtendNode(cmpNode)
  THEN [result |-> "false",
        diagnostics |-> buildError(diagnostics, "extends", Node("heritageClause", "extends"))]
  ELSE IF ShadowAndScoped(componentOptions)
  THEN [result |-> "false",
        diagnostics |-> buildError(diagnostics, "scoped and shadow",
                                   findTagNode("scoped", componentDecorator))]
  ELSE IF OtherDecorators(cmpNode, componentDecorator) # <<>>
  THEN [result |-> "false",
        diagnostics |-> buildError(diagnostics, "more decorators",
                          Node("decorator", Head(OtherDecorators(cmpNode, componentDecorator)).name))]
  ELSE IF ~HasStringTag(componentOptions)
  THEN [result |-> "false",
        diagnostics |-> buildError(diagnostics, "tag missing",
                                   Node("decorator", componentDecorator.name))]
  ELSE IF validateComponentTag(componentOptions.tag.str) # "undefined"
  THEN [result |-> "false",
        diagnostics |-> buildError(diagnostics, "tag syntax",
                                   findTagNode("tag", componentDecorator))]
  ELSE IF ~config._isTesting
  THEN CheckExports(diagnostics, typeChecker, cmpNode)
  ELSE [result |-> "true", diagnostics |-> diagnostics]

(***************************************************************************)
(* Static declaration synthesizer.                                         *)
(***************************************************************************)
\* lines 22-27
EncapsulationMembers(componentOptions) ==
  IF componentOptions.shadow
  THEN <<createStaticGetter("encapsulation", Str(<<"s", "h", "a", "d", "o", "w">>))>>
  ELSE IF componentOptions.scoped
  THEN <<createStaticGetter("encapsulation", Str(<<"s", "c", "o", "p", "e", "d">>))>>
  ELSE <<>>

\* lines 49-52
StyleUrlMembers(componentOptions) ==
  LET styleUrls == StyleUrlsMap(componentOptions)
  IN  IF Cardinality(DOMAIN styleUrls) > 0
      THEN << createStaticGetter("originalStyleUrls", LiteralOfModes(styleUrls)),
              createStaticGetter("styleUrls", LiteralOfModes(normalizeExtension(styleUrls))) >>
      ELSE <<>>

\* mutant: assetsDir is put before the assetsDirs entries
AssetsDirs_DirFirst(componentOptions) ==
  (IF Truthy(componentOptions.assetsDir) THEN <<componentOptions.assetsDir.str>> ELSE <<>>)
  \o (IF Truthy(componentOptions.assetsDirs) THEN componentOptions.assetsDirs.items ELSE <<>>)

\* lines 54-60
AssetsDirs(componentOptions) ==
  LET assetsDirs ==
        IF Truthy(componentOptions.assetsDirs) THEN componentOptions.assetsDirs.items ELSE <<>>
  IN  IF Truthy(componentOptions.assetsDir)
      THEN assetsDirs \o <<componentOptions.assetsDir.str>>
      ELSE assetsDirs

\* lines 61-63
AssetsDirsMembers(componentOptions) ==
  IF Len(AssetsDirs(componentOptions)) > 0
  THEN <<createStaticGetter("assetsDirs", Arr(AssetsDirs(componentOptions)))>>
  ELSE <<>>

\* lines 64-69
StylesMembers(componentOptions) ==
  IF componentOptions.styles.kind = "string"
  THEN LET styles == trim(componentOptions.styles.str)
       IN  IF Len(styles) > 0 THEN <<createStaticGetter("styles", Str(styles))>> ELSE <<>>
  ELSE <<>>

\* lines 20-69: the members pushed once validation has passed
SynthesizedMembers(componentOptions) ==
  <<createStaticGetter("is", Str(trim(componentOptions.tag.str)))>>
    \o EncapsulationMembers(componentOptions)
    \o StyleUrlMembers(componentOptions)
    \o AssetsDirsMembers(componentOptions)
    \o StylesMembers(componentOptions)

\* componentDecoratorToStatic(config, typeChecker, diagnostics, cmpNode, newMembers,
\* componentDecorator): what the call leaves behind. validation is "none" when
\* validateComponent is not reached; threw tells a fault was thrown.
componentDecoratorToStatic(config, typeChecker, diagnostics, cmpNode, newMembers, componentDecorator) ==
  LET stripped == removeDecorators(cmpNode, CLASS_DECORATORS_TO_REMOVE)
      componentOptions == getDeclarationParameters(componentDecorator)
  IN  IF componentOptions = Undefined
      THEN [cmpNode |-> stripped, diagnostics |-> diagnostics, newMembers |-> newMembers,
            validation |-> "none", threw |-> FALSE]
      ELSE LET valid == validateComponent(config, diagnostics, typeChecker,
                                          componentOptions, stripped, componentDecorator)
           IN  [cmpNode |-> stripped,
                diagnostics |-> valid.diagnostics,
                newMembers |-> IF valid.result = "true"
                               THEN newMembers \o SynthesizedMembers(componentOptions)
                               ELSE newMembers,
                validation |-> valid.result,
                threw |-> valid.result = "threw"]

(***************************************************************************)
(* Inputs: classes, decorators, options and module exports.                *)
(***************************************************************************)
\* sequences over S of length at most n without repeated elements
Distinct(S, n) == {q \in SeqsUpTo(S, n) : Cardinality(Range(q)) = Len(q)}

FooBar == <<"f", "o", "o", "-", "b", "a", "r">>

Tags ==
  { Undefined,
    Str(<<>>),
    Str(<<" ">>),
    Str(<<"f", "o", "o">>),
    Str(FooBar),
    Str(<<" ">> \o FooBar \o <<" ">>),
    Str(<<" ", "f", "o", "o">>),
    Str(<<"F", "o", "o", "-", "b", "a", "r">>),
    Str(<<"f", "o", "n", "t", "-", "f", "a", "c", "e">>) }

PathA == <<"a", ".", "s", "c", "s", "s">>
PathB == <<"d", "/", "b", ".", "s", "c", "s", "s">>
PathC == <<"c">>

StyleUrlValues == {Undefined, Str(<<>>), Str(PathA)}

ModeKeys == {DEFAULT_STYLE_MODE, "ios", "md"}

ModeValues == {Str(<<>>), Str(PathB), Arr(<<>>), Arr(<<PathB, PathC>>)}

ModeMaps ==
  UNION {[keys -> ModeValues] : keys \in SUBSET ModeKeys}

StyleUrlsValues ==
  {Undefined}
    \cup {Arr(l) : l \in SeqsUpTo({PathB, PathC}, MaxUrls)}
    \cup {Obj(m) : m \in ModeMaps}

StyleSources ==
  {[styleUrl |-> u, styleUrls |-> l] : u \in StyleUrlValues, l \in StyleUrlsValues}

DirX == <<"x">>
DirY == <<"y">>

AssetSources ==
  {[assetsDir |-> d, assetsDirs |-> ds, styles |-> st] :
     d \in {Undefined, Str(<<>>), Str(DirX)},
     ds \in {Undefined, Arr(<<>>), Arr(<<DirY>>)},
     st \in {Undefined, Str(<<>>), Str(<<" ">>), Str(<<" ", "s", " ">>)}}

NoStyle == [styleUrl |-> Undefined, styleUrls |-> Undefined]
SomeStyle == [styleUrl |-> Str(PathA), styleUrls |-> Arr(<<PathB>>)]
NoAssets == [assetsDir |-> Undefined, assetsDirs |-> Undefined, styles |-> Undefined]
SomeAssets ==
  [assetsDir |-> Str(DirX), assetsDirs |-> Arr(<<DirY>>), styles |-> Str(<<" ", "s", " ">>)]

\* a d.ComponentOptions object
Options(tag, shadow, scoped, style, assets) ==
  [tag |-> tag, shadow |-> shadow, scoped |-> scoped,
   styleUrl |-> style.styleUrl, styleUrls |-> style.styleUrls,
   assetsDir |-> assets.assetsDir, assetsDirs |-> assets.assetsDirs,
   styles |-> assets.styles]

\* options that exercise the validator: every tag and flag, one set of sources
ValidationOptions ==
  {Options(t, sh, sc, SomeStyle, SomeAssets) : t \in Tags, sh \in BOOLEAN, sc \in BOOLEAN}

\* options that exercise the normalizer and the synthesizer: a valid tag, every
\* shape of the style and asset sources
SynthesisOptions ==
  {Options(Str(FooBar), e[1], e[2], st, as) :
     e \in {<<FALSE, FALSE>>, <<TRUE, FALSE>>, <<FALSE, TRUE>>},
     st \in StyleSources, as \in {NoAssets, SomeAssets}}
  \cup
  {Options(Str(FooBar), FALSE, FALSE, st, as) :
     st \in {NoStyle, SomeStyle}, as \in AssetSources}

ExportModifiers == [modifiers |-> Arr(<<"export">>)]
NoModifiers == [modifiers |-> Undefined]

Symbol(name, flags, valueDeclaration) ==
  [name |-> name, flags |-> flags, valueDeclaration |-> valueDeclaration]

\* export class MyComponent, export interface, export type, export function,
\* export const (its VariableDeclaration carries no modifiers), export { x }
ExportPool ==
  { Symbol("MyComponent", {"Class"}, ExportModifiers),
    Symbol("SomeInterface", {"Interface"}, Undefined),
    Symbol("SomeType", {"TypeAlias"}, Undefined),
    Symbol("Helper", {"Function"}, ExportModifiers),
    Symbol("helperConst", {"BlockScopedVariable"}, NoModifiers),
    Symbol("reExported", {"Alias"}, Undefined) }

ModuleExports == Distinct(ExportPool, MaxExports)

ClassNames == {Undefined, [text |-> "MyComponent"]}

ComponentDecoratorNode == [id |-> "d1", name |-> "Component"]
OtherDecoratorNode == [id |-> "d2", name |-> "Other"]

Decorators == {<<ComponentDecoratorNode>>, <<ComponentDecoratorNode, OtherDecoratorNode>>}

HeritageClauses == {<<>>, <<"implements">>, <<"extends">>, <<"extends", "implements">>}

ExistingMembers == {<<>>, <<createStaticGetter("render", Undefined)>>}

ClassNode(heritageClauses, decorators, name) ==
  [heritageClauses |-> heritageClauses, decorators |-> decorators, name |-> name]

\* the @Component(...) decorator: its evaluated argument list and the option
\* names written as property assignments in its object literal
DecoratorNode(arguments, propertyAssignments) ==
  [id |-> ComponentDecoratorNode.id, name |-> ComponentDecoratorNode.name,
   arguments |-> arguments, propertyAssignments |-> propertyAssignments]

PropertyAssignments == {{}, {"tag", "scoped"}}

\* classes that exercise the validator
ValidationClasses ==
  {[cmpNode |-> ClassNode(h, d, n),
    componentDecorator |-> DecoratorNode(a, p),
    members |-> <<createStaticGetter("render", Undefined)>>] :
     h \in HeritageClauses, d \in Decorators, n \in ClassNames,
     a \in {<<>>} \cup {<<o>> : o \in ValidationOptions}, p \in PropertyAssignments}

\* classes that exercise the normalizer and the synthesizer
SynthesisClasses ==
  {[cmpNode |-> ClassNode(<<>>, <<ComponentDecoratorNode>>, [text |-> "MyComponent"]),
    componentDecorator |-> DecoratorNode(<<o>>, {"tag", "scoped"}),
    members |-> m] :
     o \in SynthesisOptions, m \in ExistingMembers}

\* the classes a later call of the same compilation unit may bring: one without
\* options, one that passes checks 1-5, and one for each of these checks to stop
NextClasses ==
  LET Class(h, d, a) ==
        [cmpNode |-> ClassNode(h, d, [text |-> "MyComponent"]),
         componentDecorator |-> DecoratorNode(a, {"tag", "scoped"}),
         members |-> <<>>]
      Plain(t, s) == <<Options(t, s, s, NoStyle, NoAssets)>>
      Only == <<ComponentDecoratorNode>>
  IN  { Class(<<>>, Only, <<>>),
        Class(<<>>, Only, Plain(Str(FooBar), FALSE)),
        Class(<<"extends">>, Only, Plain(Str(FooBar), FALSE)),
        Class(<<>>, Only, Plain(Str(FooBar), TRUE)),
        Class(<<>>, <<ComponentDecoratorNode, OtherDecoratorNode>>, Plain(Str(FooBar), FALSE)),
        Class(<<>>, Only, Plain(Undefined, FALSE)),
        Class(<<>>, Only, Plain(Str(<<"f", "o", "o">>), FALSE)) }

(***************************************************************************)
(* The state machine: the caller hands classes to the transform, one call  *)
(* at a time, all calls sharing config, typeChecker and diagnostics.       *)
(***************************************************************************)
VARIABLES
  config,              \* d.Config: _isTesting
  typeChecker,         \* the exports of the class's module
  diagnostics,         \* the shared d.Diagnostic[]
  cmpNode,             \* the class declaration
  newMembers,          \* the caller's member list of the class
  componentDecorator,  \* the @Component decorator of the class
  pc,                  \* "ready": call pending; "returned"; "threw"
  validation,          \* what validateComponent returned in the last call
  entry,               \* diagnostics, newMembers and cmpNode when the call began
  calls                \* calls made so far

vars == <<config, typeChecker, diagnostics, cmpNode, newMembers, componentDecorator,
          pc, validation, entry, calls>>

Snapshot(d, m, c) == [diagnostics |-> d, newMembers |-> m, cmpNode |-> c]

Init ==
  /\ \/ /\ config \in [_isTesting : BOOLEAN]
        /\ typeChecker \in [exports : ModuleExports]
        /\ \E class \in ValidationClasses :
             /\ cmpNode = class.cmpNode
             /\ componentDecorator = class.componentDecorator
             /\ newMembers = class.members
     \/ /\ config = [_isTesting |-> FALSE]
        /\ typeChecker \in [exports : {<<>>, <<Symbol("MyComponent", {"Class"}, ExportModifiers)>>}]
        /\ \E class \in SynthesisClasses :
             /\ cmpNode = class.cmpNode
             /\ componentDecorator = class.componentDecorator
             /\ newMembers = class.members
  /\ diagnostics = <<>>
  /\ pc = "ready"
  /\ validation = "none"
  /\ entry = Snapshot(diagnostics, newMembers, cmpNode)
  /\ calls = 0

\* one call of componentDecoratorToStatic
Invoke ==
  /\ pc = "ready"
  /\ LET out == componentDecoratorToStatic(config, typeChecker, diagnostics, cmpNode,
                                           newMembers, componentDecorator)
     IN  /\ cmpNode' = out.cmpNode
         /\ diagnostics' = out.diagnostics
         /\ newMembers' = out.newMembers
         /\ validation' = out.validation
         /\ pc' = IF out.threw THEN "threw" ELSE "returned"
  /\ entry' = Snapshot(diagnostics, newMembers, cmpNode)
  /\ calls' = calls + 1
  /\ UNCHANGED <<config, typeChecker, componentDecorator>>

\* the caller moves on to the next decorated class of the compilation unit
NextClass ==
  /\ pc = "returned"
  /\ calls < MaxCalls
  /\ \E class \in NextClasses :
       /\ cmpNode' = class.cmpNode
       /\ componentDecorator' = class.componentDecorator
       /\ newMembers' = class.members
  /\ pc' = "ready"
  /\ UNCHANGED <<config, typeChecker, diagnostics, validation, entry, calls>>

Next == Invoke \/ NextClass

Spec == Init /\ [][Next]_vars

(***************************************************************************)
(* Vocabulary of the properties: the last call, seen from the state it     *)
(* leaves.                                                                 *)
(***************************************************************************)
Done == pc # "ready"

componentOptions == getDeclarationParameters(componentDecorator)

\* the last call reached validateComponent
Reached == Done /\ componentOptions # Undefined

\* what the last call appended to the two lists
AppendedDiagnostics == Drop(diagnostics, Len(entry.diagnostics))
PushedMembers == Drop(newMembers, Len(entry.newMembers))

PushedNames == [i \in DOMAIN PushedMembers |-> PushedMembers[i].name]

HasMember(name) == \E i \in DOMAIN PushedMembers : PushedMembers[i].name = name

MemberValue(name) ==
  (CHOOSE member \in Range(PushedMembers) : member.name = name).value

HasExtends == "extends" \in Range(entry.cmpNode.heritageClauses)

\* a decorator of the class that the pass does not strip
HasOtherDecorator ==
  \E i \in DOMAIN entry.cmpNode.decorators :
    entry.cmpNode.decorators[i].name \notin CLASS_DECORATORS_TO_REMOVE

TagPresent ==
  componentOptions.tag.kind = "string" /\ trim(componentOptions.tag.str) # <<>>

\* the tag satisfies the naming rules as written, and once trimmed
TagValidAsWritten == validateComponentTag(componentOptions.tag.str) = "undefined"
TrimmedTagValid == validateComponentTag(trim(componentOptions.tag.str)) = "undefined"

\* checks 1-5 find nothing, on a tag written without surrounding white space
ChecksOneToFivePass ==
  /\ ~HasExtends
  /\ ~(componentOptions.shadow /\ componentOptions.scoped)
  /\ ~HasOtherDecorator
  /\ TagPresent
  /\ TagValidAsWritten

\* the exports the single-export rule is about
OffendingExports ==
  {i \in DOMAIN typeChecker.exports :
     /\ "Interface" \notin typeChecker.exports[i].flags
     /\ "TypeAlias" \notin typeChecker.exports[i].flags
     /\ \/ entry.cmpNode.name = Undefined
        \/ typeChecker.exports[i].name # entry.cmpNode.name.text}

(***************************************************************************)
(* C1: a call that reaches validateComponent on a class with an extends    *)
(* clause returns with validation false, exactly one diagnostic appended,  *)
(* bound to the extends clause, and no member pushed, whatever the other   *)
(* inputs are.                                                             *)
(***************************************************************************)
C1_ExtendsFailsValidation ==
  (Reached /\ HasExtends) =>
    /\ pc = "returned"
    /\ validation = "false"
    /\ Len(AppendedDiagnostics) = 1
    /\ IsPrefix(entry.diagnostics, diagnostics)
    /\ AppendedDiagnostics[1].node = Node("heritageClause", "extends")
    /\ newMembers = entry.newMembers

\* reached with every other anomaly present at once, in non-test mode
C1_Witness ==
  /\ Reached /\ HasExtends
  /\ componentOptions.shadow /\ componentOptions.scoped
  /\ HasOtherDecorator
  /\ ~TagPresent
  /\ ~config._isTesting
  /\ OffendingExports # {}
  /\ Len(AppendedDiagnostics) = 1

(***************************************************************************)
(* C2: a call whose options have shadow and scoped both true appends       *)
(* exactly one diagnostic and pushes no member, for every combination of   *)
(* the other inputs.                                                       *)
(***************************************************************************)
C2_ShadowAndScopedOneDiagnostic ==
  (Reached /\ componentOptions.shadow /\ componentOptions.scoped) =>
    /\ pc = "returned"
    /\ Len(diagnostics) = Len(entry.diagnostics) + 1
    /\ IsPrefix(entry.diagnostics, diagnostics)
    /\ newMembers = entry.newMembers

\* the mutual-exclusivity check itself reports, on an otherwise valid class
C2_Witness ==
  /\ Reached /\ componentOptions.shadow /\ componentOptions.scoped
  /\ ~HasExtends /\ ~HasOtherDecorator /\ TagPresent /\ TagValidAsWritten
  /\ Len(AppendedDiagnostics) = 1
  /\ AppendedDiagnostics[1].messageText = "scoped and shadow"
  /\ AppendedDiagnostics[1].node = Node("initializer", "scoped")

(***************************************************************************)
(* C3: when validation passes, the members pushed are, in order, a         *)
(* subsequence of is, encapsulation, originalStyleUrls, styleUrls,         *)
(* assetsDirs, styles; is comes first and is the trimmed tag;              *)
(* encapsulation is "shadow" if shadow, else "scoped" if scoped, else      *)
(* absent; assetsDirs is the assetsDirs list followed by assetsDir, absent *)
(* if empty; styles is the trimmed text, absent if missing or empty once   *)
(* trimmed.  When validation does not pass, newMembers is unchanged.       *)
(***************************************************************************)
MemberOrder == <<"is", "encapsulation", "originalStyleUrls", "styleUrls", "assetsDirs", "styles">>

Rank(name) == CHOOSE i \in DOMAIN MemberOrder : MemberOrder[i] = name

ExpectedAssetsDirs ==
  (IF componentOptions.assetsDirs.kind = "array"
   THEN componentOptions.assetsDirs.items ELSE <<>>)
  \o (IF componentOptions.assetsDir.kind = "string" /\ componentOptions.assetsDir.str # <<>>
      THEN <<componentOptions.assetsDir.str>> ELSE <<>>)

C3_MembersInFixedOrder ==
  Done =>
    /\ IsPrefix(entry.newMembers, newMembers)
    /\ validation # "true" => newMembers = entry.newMembers
    /\ validation = "true" =>
         /\ \A i \in DOMAIN PushedNames : PushedNames[i] \in Range(MemberOrder)
         /\ \A i, j \in DOMAIN PushedNames :
              i < j => Rank(PushedNames[i]) < Rank(PushedNames[j])
         /\ PushedMembers # <<>>
         /\ PushedMembers[1] = [name |-> "is", value |-> Str(trim(componentOptions.tag.str))]
         /\ HasMember("encapsulation") <=> (componentOptions.shadow \/ componentOptions.scoped)
         /\ componentOptions.shadow =>
              MemberValue("encapsulation") = Str(<<"s", "h", "a", "d", "o", "w">>)
         /\ (componentOptions.scoped /\ ~componentOptions.shadow) =>
              MemberValue("encapsulation") = Str(<<"s", "c", "o", "p", "e", "d">>)
         /\ HasMember("assetsDirs") <=> ExpectedAssetsDirs # <<>>
         /\ HasMember("assetsDirs") => MemberValue("assetsDirs") = Arr(ExpectedAssetsDirs)
         /\ HasMember("styles") <=>
              /\ componentOptions.styles.kind = "string"
              /\ trim(componentOptions.styles.str) # <<>>
         /\ HasMember("styles") =>
              MemberValue("styles") = Str(trim(componentOptions.styles.str))

\* all six members pushed after an existing member, styles and assets given
C3_Witness ==
  /\ Done /\ validation = "true"
  /\ entry.newMembers # <<>>
  /\ PushedNames = MemberOrder
  /\ componentOptions.styles.str # trim(componentOptions.styles.str)
  /\ Len(MemberValue("assetsDirs").items) = 2

(***************************************************************************)
(* The style maps the last call emitted: each mode key with its list of    *)
(* paths; the empty map when the member was not pushed.                    *)
(***************************************************************************)
EmittedModes(name) ==
  IF HasMember(name)
  THEN [key \in DOMAIN MemberValue(name).map |-> MemberValue(name).map[key].items]
  ELSE EmptyMap

OriginalStyleUrls == EmittedModes("originalStyleUrls")

FlatStyleUrlsWithStyleUrl ==
  /\ Done /\ validation = "true"
  /\ componentOptions.styleUrls.kind = "array"
  /\ componentOptions.styleUrl.kind = "string" /\ componentOptions.styleUrl.str # <<>>

(***************************************************************************)
(* C4 as stated: with a flat styleUrls list and a styleUrl, the default-   *)
(* mode list of originalStyleUrls is the styleUrl path followed by the     *)
(* entries of the styleUrls list, and the map has no other key.            *)
(***************************************************************************)
C4_StyleUrlFirst ==
  FlatStyleUrlsWithStyleUrl =>
    /\ DOMAIN OriginalStyleUrls = {DEFAULT_STYLE_MODE}
    /\ OriginalStyleUrls[DEFAULT_STYLE_MODE] =
         <<componentOptions.styleUrl.str>> \o componentOptions.styleUrls.items

(***************************************************************************)
(* C4 amended: with a flat styleUrls list and a (non-empty) styleUrl, the  *)
(* default-mode list of originalStyleUrls is the entries of the styleUrls  *)
(* list in their given order followed by the styleUrl path, and the map    *)
(* has no other key.                                                       *)
(***************************************************************************)
C4_StyleUrlLast ==
  FlatStyleUrlsWithStyleUrl =>
    /\ DOMAIN OriginalStyleUrls = {DEFAULT_STYLE_MODE}
    /\ OriginalStyleUrls[DEFAULT_STYLE_MODE] =
         componentOptions.styleUrls.items \o <<componentOptions.styleUrl.str>>

\* a two-entry list and a styleUrl, three paths in the default-mode list
C4_Witness ==
  /\ FlatStyleUrlsWithStyleUrl
  /\ Len(componentOptions.styleUrls.items) = 2
  /\ componentOptions.styleUrls.items[1] # componentOptions.styleUrls.items[2]
  /\ Len(OriginalStyleUrls[DEFAULT_STYLE_MODE]) = 3

PerModeStyleUrls ==
  /\ Done /\ validation = "true"
  /\ componentOptions.styleUrls.kind = "object"

GivenModes == componentOptions.styleUrls.map

StyleUrlGiven ==
  componentOptions.styleUrl.kind = "string" /\ componentOptions.styleUrl.str # <<>>

\* a value wrapped to a list, as the claim words it
WrappedToList(value) ==
  IF value.kind = "array" THEN value.items ELSE <<value.str>>

\* a value normalized to a list: an empty string gives the empty list
NormalizedToList(value) ==
  IF value.kind = "array" THEN value.items
  ELSE IF value.str = <<>> THEN <<>>
  ELSE <<value.str>>

(***************************************************************************)
(* C5 as stated: with a per-mode styleUrls map, every explicit mode key    *)
(* holds exactly its own value wrapped to a list (read here for values     *)
(* other than the empty string), the styleUrl path appears only under the  *)
(* default-mode key, and the default-mode bucket is built from styleUrl    *)
(* only and added only if it is non-empty.                                 *)
(***************************************************************************)
C5_ModesKeepOwnValue ==
  PerModeStyleUrls =>
    /\ \A key \in DOMAIN GivenModes :
         GivenModes[key] # Str(<<>>) =>
           /\ key \in DOMAIN OriginalStyleUrls
           /\ OriginalStyleUrls[key] = WrappedToList(GivenModes[key])
    /\ \A key \in DOMAIN OriginalStyleUrls \ {DEFAULT_STYLE_MODE} :
         componentOptions.styleUrl.kind = "string" =>
           componentOptions.styleUrl.str \notin Range(OriginalStyleUrls[key])
    /\ DEFAULT_STYLE_MODE \notin DOMAIN GivenModes =>
         /\ DEFAULT_STYLE_MODE \in DOMAIN OriginalStyleUrls <=> StyleUrlGiven
         /\ StyleUrlGiven =>
              OriginalStyleUrls[DEFAULT_STYLE_MODE] = <<componentOptions.styleUrl.str>>

(***************************************************************************)
(* C5 amended: with a per-mode styleUrls map, every mode key other than    *)
(* the reserved default-mode key holds exactly its own value normalized to *)
(* a list (a non-empty string becomes a one-element list, a list is kept   *)
(* in order, an empty string becomes the empty list); the styleUrl path is *)
(* added only under the default-mode key; the default-mode bucket is the   *)
(* map's own default-mode value normalized to a list, followed by          *)
(* styleUrl, and it is stored only if non-empty (a default-mode key given  *)
(* in the map otherwise keeps its normalized, empty, list).                *)
(***************************************************************************)
ExpectedDefaultBucket ==
  (IF DEFAULT_STYLE_MODE \in DOMAIN GivenModes
   THEN NormalizedToList(GivenModes[DEFAULT_STYLE_MODE]) ELSE <<>>)
  \o (IF StyleUrlGiven THEN <<componentOptions.styleUrl.str>> ELSE <<>>)

C5_PerModeMapNormalized ==
  PerModeStyleUrls =>
    /\ DOMAIN OriginalStyleUrls =
         DOMAIN GivenModes
           \cup (IF ExpectedDefaultBucket # <<>> THEN {DEFAULT_STYLE_MODE} ELSE {})
    /\ \A key \in DOMAIN GivenModes \ {DEFAULT_STYLE_MODE} :
         OriginalStyleUrls[key] = NormalizedToList(GivenModes[key])
    /\ DEFAULT_STYLE_MODE \in DOMAIN OriginalStyleUrls =>
         OriginalStyleUrls[DEFAULT_STYLE_MODE] = ExpectedDefaultBucket

\* ios given as a string, md as a list, a default-mode entry and a styleUrl
C5_Witness ==
  /\ PerModeStyleUrls
  /\ DOMAIN GivenModes = {DEFAULT_STYLE_MODE, "ios", "md"}
  /\ GivenModes["ios"].kind = "string" /\ GivenModes["ios"].str # <<>>
  /\ GivenModes["md"].kind = "array" /\ Len(GivenModes["md"].items) = 2
  /\ Truthy(GivenModes[DEFAULT_STYLE_MODE])
  /\ StyleUrlGiven
  /\ Len(OriginalStyleUrls[DEFAULT_STYLE_MODE]) = 2
  /\ Len(OriginalStyleUrls["md"]) = 2

(***************************************************************************)
(* C6: in non-test mode, when checks 1-5 pass, the call appends exactly    *)
(* one diagnostic for each offending export and validation returns false   *)
(* if and only if there is one; in test mode the export check appends      *)
(* nothing.                                                                *)
(***************************************************************************)
C6_OneDiagnosticPerOffendingExport ==
  (Reached /\ ChecksOneToFivePass) =>
    IF config._isTesting
    THEN AppendedDiagnostics = <<>> /\ validation = "true"
    ELSE /\ Len(AppendedDiagnostics) = Cardinality(OffendingExports)
         /\ \A i \in DOMAIN AppendedDiagnostics :
              AppendedDiagnostics[i].messageText = "single export"
         /\ validation = "false" <=> OffendingExports # {}
         /\ validation = "true" <=> OffendingExports = {}

(***************************************************************************)
(* C7: every failure is a diagnostic and never a thrown fault: every call  *)
(* returns normally.                                                       *)
(***************************************************************************)
C7_NeverThrows == pc # "threw"

(***************************************************************************)
(* C8: originalStyleUrls and styleUrls are pushed together or not at all,  *)
(* with the same mode keys, at least one key, and no empty list as a       *)
(* value.                                                                  *)
(***************************************************************************)
C8_NoEmptyStyleList ==
  (Done /\ validation = "true") =>
    /\ HasMember("originalStyleUrls") <=> HasMember("styleUrls")
    /\ HasMember("originalStyleUrls") =>
         /\ DOMAIN OriginalStyleUrls # {}
         /\ DOMAIN OriginalStyleUrls = DOMAIN EmittedModes("styleUrls")
         /\ \A key \in DOMAIN OriginalStyleUrls :
              /\ OriginalStyleUrls[key] # <<>>
              /\ EmittedModes("styleUrls")[key] # <<>>

(***************************************************************************)
(* C9: the tag-syntax check is applied to the trimmed tag: when checks 1-4 *)
(* pass and the trimmed tag satisfies the naming rules, no tag diagnostic  *)
(* is reported, and the synthesized is equals the trimmed tag; when the    *)
(* trimmed tag violates the rules, exactly one diagnostic is appended,     *)
(* bound to the tag argument node.                                         *)
(***************************************************************************)
C9_TrimmedTagChecked ==
  (/\ Reached
   /\ ~HasExtends
   /\ ~(componentOptions.shadow /\ componentOptions.scoped)
   /\ ~HasOtherDecorator
   /\ TagPresent) =>
    IF TrimmedTagValid
    THEN /\ \A i \in DOMAIN AppendedDiagnostics :
              AppendedDiagnostics[i].messageText # "tag syntax"
         /\ validation = "true" =>
              /\ HasMember("is")
              /\ MemberValue("is") = Str(trim(componentOptions.tag.str))
    ELSE /\ Len(AppendedDiagnostics) = 1
         /\ AppendedDiagnostics[1].messageText = "tag syntax"
         /\ "tag" \in componentDecorator.propertyAssignments =>
              AppendedDiagnostics[1].node = Node("initializer", "tag")

(***************************************************************************)
(* C10: every call only appends to the shared diagnostics list (what was   *)
(* there stays, unchanged, as a prefix); it appends nothing when the       *)
(* decorator has no options object or validation passes, exactly one       *)
(* diagnostic when one of the extends, other-decorator, shadow/scoped,     *)
(* tag-presence and tag-syntax checks finds its anomaly (the tag-syntax    *)
(* check being the naming-rule checker's verdict on the tag it is given),  *)
(* and more than one only from the single-export check.                    *)
(***************************************************************************)
AnomalyInChecksOneToFive ==
  \/ HasExtends
  \/ componentOptions.shadow /\ componentOptions.scoped
  \/ HasOtherDecorator
  \/ ~TagPresent
  \/ ~TagValidAsWritten

C10_DiagnosticsAppendOnly ==
  Done =>
    /\ IsPrefix(entry.diagnostics, diagnostics)
    /\ (componentOptions = Undefined \/ validation = "true") => AppendedDiagnostics = <<>>
    /\ (Reached /\ AnomalyInChecksOneToFive) =>
         /\ Len(AppendedDiagnostics) = 1
         /\ AppendedDiagnostics[1].messageText # "single export"
    /\ Len(AppendedDiagnostics) > 1 =>
         /\ Reached
         /\ ~AnomalyInChecksOneToFive
         /\ ~config._isTesting
         /\ \A i \in DOMAIN AppendedDiagnostics :
              AppendedDiagnostics[i].messageText = "single export"

\* a later call appends one diagnostic behind the two export diagnostics of
\* an earlier call
C10_Witness ==
  /\ Done
  /\ calls = MaxCalls
  /\ Len(entry.diagnostics) = 2
  /\ entry.diagnostics[1].messageText = "single export"
  /\ Len(AppendedDiagnostics) = 1
  /\ AppendedDiagnostics[1].messageText = "tag syntax"

====
